---- MODULE Spec2Model ----
(***************************************************************************)
(* Flow-field simulation engine of aero_lab_v3                             *)
(* (src/components/FlowParticles.tsx, first component of the file), the    *)
(* Scene that pauses it (src/components/Scene.tsx) and the App state that  *)
(* holds the control points and their undo history (src/unnamed/part_002,  *)
(* first App of the file; src/components/Controls.tsx).                    *)
(*                                                                         *)
(* Numbers are fixed point: an integer v stands for the real v / 1000.     *)
(* Angles are carried in thousandths of a degree, thickness in             *)
(* thousandths of a percent, Math.random() draws in thousandths (0..999).  *)
(* Products and quotients truncate toward zero, which keeps every formula  *)
(* of the source odd-symmetric where the source is.                        *)
(***************************************************************************)
EXTENDS Integers, Sequences, FiniteSets, TLC

VARIABLES
    count,        \* prop count (particleCount of the caller)
    flowType,     \* prop flowType: "discrete" | "steam"
    showHeatmap,  \* prop showHeatmap
    paused,       \* prop paused
    particles,    \* useMemo particle records, a sequence (index i+1 is source index i)
    mesh,         \* mesh.current: "null" or the instance buffers of the mounted mesh
    dummy,        \* the shared THREE.Object3D helper (rotation survives between uses)
    props,        \* the props read by the most recent frame over these particles
    log,          \* per particle: what the most recent non-paused frame did to it
    clock,        \* frames elapsed on state.clock
    params,       \* App useState params: the fields Scene's pause test and the history read
    history,      \* App useState history: snapshots of the control points, oldest first
    draggedIdx,   \* Airfoil useState draggedIdx: source index of the dragged handle, or NoDrag
    isGeneratingShape,  \* Controls useState: a generateProfilePoints request is in flight
    edits         \* handler calls of App, Controls and Airfoil so far

vars == <<count, flowType, showHeatmap, paused, particles, mesh, dummy, props, log, clock,
          params, history, draggedIdx, isGeneratingShape, edits>>

\* the state of the FlowParticles component
engineVars == <<count, flowType, showHeatmap, paused, particles, mesh, dummy, props, log, clock>>

\* the state of App, Controls and Airfoil
appVars == <<params, history, draggedIdx, isGeneratingShape, edits>>

----------------------------------------------------------------------------
(* Bounds of the model *)

MaxFrames == 2

\* handler calls of App, Controls and Airfoil in a run
MaxEdits == 4

(* fixed-point scale: 1000 units per 1 *)
Scale == 10 * 10 * 10

----------------------------------------------------------------------------
(* Arithmetic *)

Abs(a) == IF a < 0 THEN -a ELSE a

Min(a, b) == IF a < b THEN a ELSE b

Max(a, b) == IF a > b THEN a ELSE b

\* quotient truncated toward zero (b > 0)
Div(a, b) == IF a >= 0 THEN a \div b ELSE -((-a) \div b)

\* fixed-point product
Mul(a, b) == Div(a * b, Scale)

\* Math.sign(v) || 1
SignOr1(v) == IF v < 0 THEN -1 ELSE 1

RECURSIVE SqrtSearch(_, _, _)
SqrtSearch(n, lo, hi) ==
    IF lo >= hi THEN lo
    ELSE LET mid == (lo + hi + 1) \div 2
         IN  IF mid * mid <= n THEN SqrtSearch(n, mid, hi)
             ELSE SqrtSearch(n, lo, mid - 1)

\* Math.sqrt on fixed point: floor(sqrt(v / 1000) * 1000)
Sqrt(v) == SqrtSearch(v * Scale, 0, 46000)

\* e^-k, k = 0..14, in millionths
ExpIntTable == <<1000000, 367879, 135335, 49787, 18316, 6738, 2479, 912,
                 335, 123, 45, 17, 6, 2, 1>>

RECURSIVE ExpSeries(_, _, _, _)
\* sum of the alternating series of e^-f from term number n on; term in millionths
ExpSeries(f, n, term, sgn) ==
    IF n > 9 \/ term = 0 THEN 0
    ELSE sgn * term + ExpSeries(f, n + 1, (term * f) \div ((n + 1) * Scale), -sgn)

\* Math.exp(-u) for u >= 0
ExpNeg(u) ==
    LET k    == u \div Scale
        f    == u % Scale
        frac == ExpSeries(f, 0, 1000000, 1) \div Scale
    IN  IF k >= Len(ExpIntTable) THEN 0
        ELSE (ExpIntTable[k + 1] * frac) \div 1000000

\* sine of a half turn argument x in [0, pi] (Bhaskara's rational form)
SinHalf(x) ==
    LET q == (x * (3142 - x)) \div Scale
    IN  (16 * q * Scale) \div (49348 - 4 * q)

\* Math.sin
Sin(a) ==
    LET r == a % 6283
    IN  IF r <= 3141 THEN SinHalf(r) ELSE -SinHalf(r - 3141)

\* THREE.MathUtils.degToRad
DegToRad(deg) == Div(deg * 3142, 180 * Scale)

\* THREE.MathUtils.smoothstep(x, min, max)
Smoothstep(x, lo, hi) ==
    IF x <= lo THEN 0
    ELSE IF x >= hi THEN Scale
    ELSE LET t == Div((x - lo) * Scale, hi - lo)
         IN  Mul(Mul(t, t), 3 * Scale - 2 * t)

----------------------------------------------------------------------------
(* Program constants *)

NUM_STREAMS == 25

BOUND_START == -10000

BOUND_END == 12000

FADE_DIST == 3000

FlowTypes == {"discrete", "steam"}

----------------------------------------------------------------------------
(* Inputs *)

\* values of the prop count (the component takes any number)
Counts == {0, 1, 13}

\* outcomes of Math.random(): the draw of call `kind` for particle n under
\* the outcome named seed
Seeds == {0, 1}

DrawTable ==
    [ x        |-> <<975, 512, 540, 973, 0>>,
      y        |-> <<500, 520, 999, 480>>,
      z        |-> <<500, 0>>,
      speed    |-> <<999, 0, 500>>,
      baseY    |-> <<250, 750, 500>>,
      phase    |-> <<0, 250, 750>>,
      lane     |-> <<0, 999, 500>>,
      recycle  |-> <<0, 999, 500>>,
      jitterX  |-> <<999, 0>>,
      jitterY  |-> <<0, 999, 500>> ]

Draw(seed, n, kind) ==
    LET t == DrawTable[kind] IN t[((seed + n) % Len(t)) + 1]

----------------------------------------------------------------------------
(* Construction: the finalCount and particles memos *)

\* a final count that is the count in both modes
finalCountNoDouble(c, ft) == c

finalCount(c, ft) == IF ft = "steam" THEN c * 2 ELSE c

particlesPerStream(c, ft) == finalCount(c, ft) \div NUM_STREAMS

\* (i / (NUM_STREAMS - 1) - 0.5) * 10
streamY(i) == Div((2 * i - (NUM_STREAMS - 1)) * 5 * Scale, NUM_STREAMS - 1)

\* a steam construction whose lane jitter is (Math.random() - 0.5) * 0.5
SteamParticleWideJitter(seed, n, i) ==
    LET jitter == Mul(Draw(seed, n, "lane") - 500, 500)
    IN  [ x           |-> (Draw(seed, n, "x") - 500) * 25,
          y           |-> streamY(i) + jitter,
          z           |-> Mul(Draw(seed, n, "z") - 500, 100),
          speedOffset |-> Mul(Draw(seed, n, "speed"), 20),
          baseY       |-> streamY(i) + jitter,
          phase       |-> Mul(Draw(seed, n, "phase"), 6283),
          wakeSpread  |-> 0 ]

SteamParticle(seed, n, i) ==
    LET jitter == Mul(Draw(seed, n, "lane") - 500, 150)
    IN  [ x           |-> (Draw(seed, n, "x") - 500) * 25,
          y           |-> streamY(i) + jitter,
          z           |-> Mul(Draw(seed, n, "z") - 500, 100),
          speedOffset |-> Mul(Draw(seed, n, "speed"), 20),
          baseY       |-> streamY(i) + jitter,
          phase       |-> Mul(Draw(seed, n, "phase"), 6283),
          wakeSpread  |-> 0 ]

\* a discrete construction that gives the records a wakeSpread as well
DiscreteParticleWithSpread(seed, n) ==
    [ x           |-> (Draw(seed, n, "x") - 500) * 25,
      y           |-> (Draw(seed, n, "y") - 500) * 12,
      z           |-> (Draw(seed, n, "z") - 500) * 4,
      speedOffset |-> Mul(Draw(seed, n, "speed"), 20),
      baseY       |-> (Draw(seed, n, "baseY") - 500) * 12,
      phase       |-> Mul(Draw(seed, n, "phase"), 6283),
      wakeSpread  |-> 0 ]

DiscreteParticle(seed, n) ==
    [ x           |-> (Draw(seed, n, "x") - 500) * 25,
      y           |-> (Draw(seed, n, "y") - 500) * 12,
      z           |-> (Draw(seed, n, "z") - 500) * 4,
      speedOffset |-> Mul(Draw(seed, n, "speed"), 20),
      baseY       |-> (Draw(seed, n, "baseY") - 500) * 12,
      phase       |-> Mul(Draw(seed, n, "phase"), 6283) ]

\* the particles memo for props (c, ft) under the random outcome seed
Construct(c, ft, seed) ==
    IF ft = "steam"
    THEN LET pps == particlesPerStream(c, ft)
         IN  [ k \in 1..(NUM_STREAMS * pps) |->
                 SteamParticle(seed, k - 1, (k - 1) \div pps) ]
    ELSE [ k \in 1..finalCount(c, ft) |-> DiscreteParticle(seed, k - 1) ]

----------------------------------------------------------------------------
(* One pass of the frame callback over one particle *)

HasWakeSpread(p) == "wakeSpread" \in DOMAIN p

\* p.wakeSpread > 0 (false when the field is undefined)
WakeSpreadPositive(p) == HasWakeSpread(p) /\ p.wakeSpread > 0

\* if (p.wakeSpread !== undefined) p.wakeSpread = 0
ResetWakeSpread(p) == IF HasWakeSpread(p) THEN [p EXCEPT !.wakeSpread = 0] ELSE p

\* a stall test that counts the threshold angle itself as stalled
isStalledInclusive(in) == Abs(in.angle) >= 15000

isStalled(in) == Abs(in.angle) > 15000

separationPoint(in) == IF isStalled(in) THEN 200 ELSE 950

interactionRadius(in) == 1200 + Div(in.thickness, 25)

\* a lift factor taken from the cosine of the angle
liftFactorCos(in) == Mul(Sin(DegToRad(in.angle) + 1571), 3500)

liftFactor(in) == Mul(Sin(DegToRad(in.angle)), 3500)

\* 1. BASE MOVEMENT: advance and recycle

\* a recycle that overwrites the lane by the position instead of the reverse
RecycleClobberLane(p, r) ==
    ResetWakeSpread([p EXCEPT !.x = BOUND_START - r * 2, !.baseY = p.y])

\* a recycle that forgets to put the particle back on its lane
RecycleKeepY(p, r) ==
    ResetWakeSpread([p EXCEPT !.x = BOUND_START - r * 2])

Recycle(p, r) ==
    ResetWakeSpread([p EXCEPT !.x = BOUND_START - r * 2, !.y = p.baseY])

BaseMovement(p, in, r) ==
    LET moved == [p EXCEPT !.x = p.x + (in.speed + p.speedOffset)]
    IN  IF moved.x > BOUND_END THEN Recycle(moved, r) ELSE moved

\* a deflection whose cutoff is the interaction radius itself
DeflectionTightCutoff(p, in) ==
    LET dx        == p.x - 300
        dy        == p.y
        distSq    == Mul(dx, dx) + Mul(dy, dy)
        dist      == Sqrt(distSq)
        inside    == dist < interactionRadius(in)
        influence == ExpNeg(Mul(distSq, 1500))
        tPush     == Mul(Mul(SignOr1(p.y) * influence, Div(in.thickness, 100)), 600)
        lPush     == IF dx < 0 THEN Mul(Mul(influence, liftFactor(in)), 150)
                     ELSE -Mul(Mul(influence, liftFactor(in)), 150)
    IN  [ inside        |-> inside,
          influence     |-> influence,
          thicknessPush |-> IF inside THEN tPush ELSE 0,
          liftPush      |-> IF inside THEN lPush ELSE 0,
          heat          |-> IF inside THEN Mul(influence, 800) ELSE 0 ]

\* a deflection whose angle-of-attack push has the same sign on both sides of
\* the reference point
DeflectionNoDownwash(p, in) ==
    LET dx        == p.x - 300
        dy        == p.y
        distSq    == Mul(dx, dx) + Mul(dy, dy)
        dist      == Sqrt(distSq)
        inside    == dist < Mul(interactionRadius(in), 2500)
        influence == ExpNeg(Mul(distSq, 1500))
        tPush     == Mul(Mul(SignOr1(p.y) * influence, Div(in.thickness, 100)), 600)
        lPush     == Mul(Mul(influence, liftFactor(in)), 150)
    IN  [ inside        |-> inside,
          influence     |-> influence,
          thicknessPush |-> IF inside THEN tPush ELSE 0,
          liftPush      |-> IF inside THEN lPush ELSE 0,
          heat          |-> IF inside THEN Mul(influence, 800) ELSE 0 ]

\* 2. POTENTIAL FLOW DEFLECTION: the record of what the block computes
Deflection(p, in) ==
    LET dx        == p.x - 300
        dy        == p.y
        distSq    == Mul(dx, dx) + Mul(dy, dy)
        dist      == Sqrt(distSq)
        inside    == dist < Mul(interactionRadius(in), 2500)
        influence == ExpNeg(Mul(distSq, 1500))
        tPush     == Mul(Mul(SignOr1(p.y) * influence, Div(in.thickness, 100)), 600)
        lPush     == IF dx < 0 THEN Mul(Mul(influence, liftFactor(in)), 150)
                     ELSE -Mul(Mul(influence, liftFactor(in)), 150)
    IN  [ inside        |-> inside,
          influence     |-> influence,
          thicknessPush |-> IF inside THEN tPush ELSE 0,
          liftPush      |-> IF inside THEN lPush ELSE 0,
          heat          |-> IF inside THEN Mul(influence, 800) ELSE 0 ]

\* 3. WAKE TURBULENCE
wakeWidth(in, distBehind) ==
    Div(in.thickness, 100) + Div(Abs(in.angle), 30) + Mul(distBehind, 250)

\* a wake intensity that leaves out the turbulenceIntensity factor
wakeIntensityNoTurbulence(in, distBehind) ==
    Mul(Min(Scale, Div(Abs(in.angle), 10) + 200), ExpNeg(Mul(distBehind, 100)))

wakeIntensity(in, distBehind) ==
    Mul(Mul(Min(Scale, Div(Abs(in.angle), 10) + 200), ExpNeg(Mul(distBehind, 100))),
        in.turbulenceIntensity)

vortexAmp(in) == Mul(Mul(Div(Abs(in.angle), 40), 500), in.turbulenceIntensity)

oscillation(p, in, distBehind, time) ==
    Mul(Sin(Mul(distBehind, 12000) - time * 15 + p.phase), vortexAmp(in))
       * SignOr1(p.y)

\* a steam branch that accumulates the spread without the cap
SteamWakeNoCap(p, in, rx, ry) ==
    LET spread  == p.wakeSpread + Mul(10, in.turbulenceIntensity)
        jitterX == Mul(Mul(rx - 500, 50), in.turbulenceIntensity)
        jitterY == Mul(Mul(ry - 500, 200), spread)
    IN  [ wakeIntensity |-> 0, dx |-> jitterX, dy |-> jitterY,
          heat |-> Mul(spread, 500), spread |-> spread ]

\* what the steam branch does to a particle in the wake
SteamWake(p, in, rx, ry) ==
    LET spread  == Min(2000, p.wakeSpread + Mul(10, in.turbulenceIntensity))
        jitterX == Mul(Mul(rx - 500, 50), in.turbulenceIntensity)
        jitterY == Mul(Mul(ry - 500, 200), spread)
    IN  [ wakeIntensity |-> 0, dx |-> jitterX, dy |-> jitterY,
          heat |-> Mul(spread, 500), spread |-> spread ]

\* a discrete branch that applies the x jitter to attached flow as well, at
\* the half amplitude of its y jitter
DiscreteWakeJitterAttached(p, in, distBehind, time, rx, ry) ==
    LET wi      == wakeIntensity(in, distBehind)
        osc     == oscillation(p, in, distBehind, time)
        jitterX == Mul(Mul(rx - 500, 50), wi)
        jitterY == Mul(Mul(ry - 500, 50), wi)
    IN  [ wakeIntensity |-> wi,
          dx   |-> IF isStalled(in) THEN jitterX * 2 ELSE Div(jitterX, 2),
          dy   |-> IF isStalled(in) THEN osc * 2 + jitterY * 2
                   ELSE Mul(osc, ExpNeg(Abs(p.y) * 2)) + Div(jitterY, 2),
          heat |-> IF wi > 100 THEN Mul(wi, 1200) ELSE 0,
          spread |-> 0 ]

\* a discrete branch that adds its heat without the floor test
DiscreteWakeNoFloor(p, in, distBehind, time, rx, ry) ==
    LET wi      == wakeIntensity(in, distBehind)
        osc     == oscillation(p, in, distBehind, time)
        jitterX == Mul(Mul(rx - 500, 50), wi)
        jitterY == Mul(Mul(ry - 500, 50), wi)
    IN  [ wakeIntensity |-> wi,
          dx   |-> IF isStalled(in) THEN jitterX * 2 ELSE 0,
          dy   |-> IF isStalled(in) THEN osc * 2 + jitterY * 2
                   ELSE Mul(osc, ExpNeg(Abs(p.y) * 2)) + Div(jitterY, 2),
          heat |-> Mul(wi, 1200),
          spread |-> 0 ]

\* what the discrete branch does to a particle in the wake
DiscreteWake(p, in, distBehind, time, rx, ry) ==
    LET wi      == wakeIntensity(in, distBehind)
        osc     == oscillation(p, in, distBehind, time)
        jitterX == Mul(Mul(rx - 500, 50), wi)
        jitterY == Mul(Mul(ry - 500, 50), wi)
    IN  [ wakeIntensity |-> wi,
          dx   |-> IF isStalled(in) THEN jitterX * 2 ELSE 0,
          dy   |-> IF isStalled(in) THEN osc * 2 + jitterY * 2
                   ELSE Mul(osc, ExpNeg(Abs(p.y) * 2)) + Div(jitterY, 2),
          heat |-> IF wi > 100 THEN Mul(wi, 1200) ELSE 0,
          spread |-> 0 ]

\* a wake block that does not test showVortices
WakeIgnoreSwitch(p, in, ft, time, rx, ry) ==
    LET sep        == separationPoint(in)
        pastSep    == p.x > sep
        distBehind == p.x - sep
        inCone     == Abs(p.y) < wakeWidth(in, distBehind)
        inWake     == pastSep /\ (inCone \/ WakeSpreadPositive(p))
        branch     == IF ~inWake
                      THEN [wakeIntensity |-> 0, dx |-> 0, dy |-> 0, heat |-> 0,
                            spread |-> 0]
                      ELSE IF ft = "steam" THEN SteamWake(p, in, rx, ry)
                      ELSE DiscreteWake(p, in, distBehind, time, rx, ry)
    IN  [ stalled |-> isStalled(in), sep |-> sep,
          pastSep |-> pastSep, inCone |-> pastSep /\ inCone, inWake |-> inWake,
          reset |-> ~pastSep,
          wakeIntensity |-> branch.wakeIntensity, dx |-> branch.dx, dy |-> branch.dy,
          heat |-> branch.heat, spread |-> branch.spread ]

\* the record of what the block computes for particle p (p after deflection),
\* rx and ry the draws of jitterX and jitterY
Wake(p, in, ft, time, rx, ry) ==
    LET sep        == separationPoint(in)
        pastSep    == in.showVortices /\ p.x > sep
        distBehind == p.x - sep
        inCone     == Abs(p.y) < wakeWidth(in, distBehind)
        inWake     == pastSep /\ (inCone \/ WakeSpreadPositive(p))
        branch     == IF ~inWake
                      THEN [wakeIntensity |-> 0, dx |-> 0, dy |-> 0, heat |-> 0,
                            spread |-> 0]
                      ELSE IF ft = "steam" THEN SteamWake(p, in, rx, ry)
                      ELSE DiscreteWake(p, in, distBehind, time, rx, ry)
    IN  [ stalled |-> isStalled(in), sep |-> sep,
          pastSep |-> pastSep, inCone |-> pastSep /\ inCone, inWake |-> inWake,
          reset |-> ~pastSep,
          wakeIntensity |-> branch.wakeIntensity, dx |-> branch.dx, dy |-> branch.dy,
          heat |-> branch.heat, spread |-> branch.spread ]

\* a wake block without the else branch that resets the spread
ApplyWakeNoReset(p, w, ft) ==
    IF w.inWake
    THEN LET q == [p EXCEPT !.x = p.x + w.dx, !.y = p.y + w.dy]
         IN  IF ft = "steam" THEN [q EXCEPT !.wakeSpread = w.spread] ELSE q
    ELSE p

ApplyWake(p, w, ft) ==
    IF w.inWake
    THEN LET q == [p EXCEPT !.x = p.x + w.dx, !.y = p.y + w.dy]
         IN  IF ft = "steam" THEN [q EXCEPT !.wakeSpread = w.spread] ELSE q
    ELSE IF w.reset THEN ResetWakeSpread(p) ELSE p

\* 4. SCALING, VISIBILITY AND BILLBOARDING: the matrix written by setMatrixAt
\* rotation of a fresh Object3D
Identity == "identity"

\* rotation left by dummy.lookAt(state.camera.position)
LookAt == "lookAt"

\* a visibility that fades in but never out
VisibilityNoFadeOut(x) == Smoothstep(x, BOUND_START, BOUND_START + FADE_DIST)

\* the rotation a body leaves in the dummy that came to it with rotation rot
DummyAfter(ft, rot) == IF ft = "steam" THEN LookAt ELSE rot

Visibility(x) ==
    LET fadeIn  == Smoothstep(x, BOUND_START, BOUND_START + FADE_DIST)
        fadeOut == Smoothstep(x, BOUND_END - FADE_DIST, BOUND_END)
    IN  Mul(fadeIn, Scale - fadeOut)

Matrix(p, in, ft, rot) ==
    LET currentSpeed == in.speed + p.speedOffset
        baseScale    == 100 + Mul(p.wakeSpread, 150)
        scaleX       == Min(400, 150 + currentSpeed)
        vis          == Visibility(p.x)
    IN  [ x  |-> p.x, y |-> p.y, z |-> p.z, visibility |-> vis,
          sx |-> IF ft = "steam" THEN Mul(baseScale, vis) ELSE Mul(scaleX, vis),
          sy |-> IF ft = "steam" THEN Mul(baseScale, vis) ELSE Mul(20, vis),
          sz |-> IF ft = "steam" THEN Mul(baseScale, vis) ELSE Mul(20, vis),
          rotation |-> DummyAfter(ft, rot) ]

\* 5. COLOR UPDATE (h, s, l in millionths, so that no two intensities share
\* a color by rounding)
\* a hue ramp with slope 1 instead of 0.5
HueSteep(velocityScalar) ==
    LET t == Min(1500, Max(0, velocityScalar))
    IN  Max(0, 600 * Scale - t * Scale)

Hue(velocityScalar) ==
    LET t == Min(1500, Max(0, velocityScalar))
    IN  Max(0, 600 * Scale - t * 500)

Color(velocityScalar, heatmap, ft) ==
    LET t == Min(1500, Max(0, velocityScalar))
    IN  IF heatmap
        THEN [ hex |-> "hsl", h |-> Hue(velocityScalar),
               s |-> Min(Scale * Scale, 500 * Scale + t * 500),
               l |-> Min(900 * Scale, 500 * Scale + t * 100) ]
        ELSE [ hex |-> IF ft = "steam" THEN "#ffffff" ELSE "#93c5fd",
               h |-> 0, s |-> 0, l |-> 0 ]

\* the body of particles.forEach for the particle with source index n; rot is
\* the rotation the shared dummy holds when the body starts, and the log
\* keeps the Math.random() outcomes the body consumed (-1: call not made)
Step(p, n, in, ft, heatmap, time, seed, rot) ==
    LET recycled == p.x + (in.speed + p.speedOffset) > BOUND_END
        moved    == BaseMovement(p, in, Draw(seed, n, "recycle"))
        d        == Deflection(moved, in)
        deflected == [moved EXCEPT !.y = moved.y + d.thicknessPush + d.liftPush]
        w        == Wake(deflected, in, ft, time,
                         Draw(seed, n, "jitterX"), Draw(seed, n, "jitterY"))
        final    == ApplyWake(deflected, w, ft)
        velocityScalar == d.heat + w.heat
    IN  [ particle |-> final,
          matrix   |-> Matrix(final, in, ft, rot),
          color    |-> Color(velocityScalar, heatmap, ft),
          log      |-> [ ticked         |-> TRUE,
                         time           |-> time,
                         start          |-> p,
                         recycled       |-> recycled,
                         draws          |->
                            [ recycle |-> IF recycled THEN Draw(seed, n, "recycle")
                                          ELSE -1,
                              jitterX |-> IF w.inWake THEN Draw(seed, n, "jitterX")
                                          ELSE -1,
                              jitterY |-> IF w.inWake THEN Draw(seed, n, "jitterY")
                                          ELSE -1 ],
                         moved          |-> moved,
                         deflection     |-> d,
                         wake           |-> w,
                         velocityScalar |-> velocityScalar ] ]

\* the rotation the shared dummy holds when the i-th body of a pass starts,
\* rot being what it held when the pass started (every body assigns the
\* dummy's position and scale before reading them; its rotation is assigned
\* by lookAt only)
RECURSIVE DummyAt(_, _, _)
DummyAt(i, ft, rot) ==
    IF i <= 1 THEN rot ELSE DummyAfter(ft, DummyAt(i - 1, ft, rot))

\* particles.forEach visiting the indices in the sequence order: res maps
\* each index to what its body produced, rot is the rotation the dummy is
\* left with
ForEach(ps, order, in, ft, heatmap, time, seed, rot) ==
    [ res |-> [ k \in 1..Len(order) |->
                  Step(ps[k], k - 1, in, ft, heatmap, time, seed,
                       DummyAt(CHOOSE i \in 1..Len(order) : order[i] = k, ft, rot)) ],
      rot |-> DummyAt(Len(order) + 1, ft, rot) ]

\* the order in which Array.prototype.forEach visits n elements
ArrayOrder(n) == [k \in 1..n |-> k]

----------------------------------------------------------------------------
(* State machine *)

\* control points are sequences of points, index i + 1 for source index i
Pt(x, y) == [x |-> x, y |-> y]

DEFAULT_POINTS ==
    << Pt(0, 0), Pt(150, 60), Pt(300, 90), Pt(500, 100), Pt(700, 80), Pt(900, 30),
       Pt(1000, 0),
       Pt(150, -50), Pt(300, -70), Pt(500, -80), Pt(700, -60), Pt(900, -20) >>

Modes == {"naca", "freeform"}

\* the fields of DEFAULT_PARAMS that the pause test and the history use (the
\* flow settings of params are the props count, flowType, showHeatmap above)
DEFAULT_PARAMS ==
    [ mode |-> "naca", isEditing |-> FALSE, pauseFlowDuringEdit |-> FALSE,
      isFlowActive |-> TRUE, controlPoints |-> DEFAULT_POINTS ]

\* a pause test that hides the flow while editing in either geometry mode
isFlowPausedAnyMode(p) ==
    ~p.isFlowActive \/ (p.isEditing /\ p.pauseFlowDuringEdit)

\* Scene: Global Switch OFF OR (Sculpt Mode + Editing + Hide Flow Option)
isFlowPaused(p) ==
    ~p.isFlowActive \/ (p.mode = "freeform" /\ p.isEditing /\ p.pauseFlowDuringEdit)

\* draggedIdx === null
NoDrag == -1

\* the props only the frame callback reads, with the component's defaults
DefaultProps ==
    [ speed |-> 150, angle |-> -10000, thickness |-> 14000,
      showVortices |-> TRUE, turbulenceIntensity |-> 1000 ]

\* the props a frame reads: the defaults, and each departure from them the
\* behaviour branches on (zero input, stall at the largest thickness, wake off, zero turbulence)
Inputs ==
    { DefaultProps,
      [DefaultProps EXCEPT !.angle = 0, !.thickness = 0],
      [DefaultProps EXCEPT !.angle = 16000, !.thickness = 40000],
      [DefaultProps EXCEPT !.showVortices = FALSE],
      [DefaultProps EXCEPT !.angle = 0, !.thickness = 0, !.turbulenceIntensity = 0] }

\* state.clock.getElapsedTime() at frame number c (60 frames a second)
ElapsedTime(c) == c * 16

\* return null: no instancedMesh, mesh.current is null
Unmounted == [mounted |-> FALSE, instanceCount |-> 0, matrix |-> <<>>, color |-> <<>>]

\* <instancedMesh args={[undefined, undefined, finalCount]}>, nothing written yet
FreshMesh(n) == [mounted |-> TRUE, instanceCount |-> n, matrix |-> <<>>, color |-> <<>>]

NoLog(p) ==
    [ ticked |-> FALSE, time |-> 0, start |-> p, recycled |-> FALSE, moved |-> p,
      deflection |-> [inside |-> FALSE, influence |-> 0, thicknessPush |-> 0,
                      liftPush |-> 0, heat |-> 0],
      draws |-> [recycle |-> -1, jitterX |-> -1, jitterY |-> -1],
      wake |-> [stalled |-> FALSE, sep |-> 0,
                pastSep |-> FALSE, inCone |-> FALSE, inWake |-> FALSE,
                wakeIntensity |-> 0, dx |-> 0, dy |-> 0, heat |-> 0,
                spread |-> 0, reset |-> FALSE],
      velocityScalar |-> 0 ]

InitLog(ps) == [k \in 1..Len(ps) |-> NoLog(ps[k])]

Init ==
    /\ count \in Counts
    /\ flowType \in FlowTypes
    /\ showHeatmap \in BOOLEAN
    /\ params \in { [DEFAULT_PARAMS EXCEPT !.isFlowActive = a] : a \in BOOLEAN }
    /\ paused = isFlowPaused(params)
    /\ \E seed \in Seeds : particles = Construct(count, flowType, seed)
    /\ mesh = IF paused THEN Unmounted ELSE FreshMesh(finalCount(count, flowType))
    /\ dummy = Identity
    /\ props = DefaultProps
    /\ log = InitLog(particles)
    /\ clock = 0
    /\ history = <<>>
    /\ draggedIdx = NoDrag
    /\ isGeneratingShape = FALSE
    /\ edits = 0

\* a frame callback whose bodies call Math.random() for outcomes other than
\* the ones handed to the tick
FrameOverUninjected(ins) ==
    /\ clock < MaxFrames
    /\ clock' = clock + 1
    /\ IF ~mesh.mounted \/ paused
       THEN UNCHANGED <<particles, mesh, dummy, props, log>>
       ELSE \E in \in ins, seed \in Seeds, hidden \in Seeds :
              \E pass \in { ForEach(particles, ArrayOrder(Len(particles)), in,
                                    flowType, showHeatmap, ElapsedTime(clock'),
                                    hidden, dummy) } :
                /\ particles' = [k \in 1..Len(particles) |-> pass.res[k].particle]
                /\ mesh' = [mesh EXCEPT
                              !.matrix = [k \in 1..Len(particles) |-> pass.res[k].matrix],
                              !.color  = [k \in 1..Len(particles) |-> pass.res[k].color]]
                /\ dummy' = pass.rot
                /\ props' = in
                /\ log' = [k \in 1..Len(particles) |->
                             Step(particles[k], k - 1, in, flowType, showHeatmap,
                                  ElapsedTime(clock'), seed, dummy).log]
    /\ UNCHANGED <<count, flowType, showHeatmap, paused>>

\* useFrame callback, invoked with the props of the latest render drawn
\* from ins
FrameOver(ins) ==
    /\ clock < MaxFrames
    /\ clock' = clock + 1
    /\ IF ~mesh.mounted \/ paused
       THEN UNCHANGED <<particles, mesh, dummy, props, log>>
       ELSE \E in \in ins, seed \in Seeds :
              \E pass \in { ForEach(particles, ArrayOrder(Len(particles)), in,
                                    flowType, showHeatmap, ElapsedTime(clock'),
                                    seed, dummy) } :
                /\ particles' = [k \in 1..Len(particles) |-> pass.res[k].particle]
                /\ mesh' = [mesh EXCEPT
                              !.matrix = [k \in 1..Len(particles) |-> pass.res[k].matrix],
                              !.color  = [k \in 1..Len(particles) |-> pass.res[k].color]]
                /\ dummy' = pass.rot
                /\ props' = in
                /\ log' = [k \in 1..Len(particles) |-> pass.res[k].log]
    /\ UNCHANGED <<count, flowType, showHeatmap, paused>>

Frame == FrameOver(Inputs) /\ UNCHANGED appVars

\* the component re-renders with one of the props count, flowType,
\* showHeatmap, paused changed (a render that changes several is a sequence
\* of these with no frame in between)
\* a re-render whose particles memo also depends on paused
RerenderRebuildOnPause(c, ft, h, pz, seed) ==
    LET rebuild == \/ finalCount(c, ft) # finalCount(count, flowType)
                   \/ ft # flowType
                   \/ pz # paused
        ps      == IF rebuild THEN Construct(c, ft, seed) ELSE particles
    IN  /\ count' = c
        /\ flowType' = ft
        /\ showHeatmap' = h
        /\ paused' = pz
        /\ particles' = ps
        /\ mesh' = IF pz THEN Unmounted
                   ELSE IF ~mesh.mounted
                           \/ finalCount(c, ft) # finalCount(count, flowType)
                   THEN FreshMesh(finalCount(c, ft))
                   ELSE mesh
        /\ log' = IF rebuild THEN InitLog(ps) ELSE log
        /\ props' = IF rebuild THEN DefaultProps ELSE props
        /\ UNCHANGED <<dummy, clock>>

\* a re-render that resizes the field in place when only the count changes:
\* the records the old field already has are kept, the rest are new
RerenderResize(c, ft, h, pz, seed) ==
    LET rebuild == finalCount(c, ft) # finalCount(count, flowType) \/ ft # flowType
        fresh   == Construct(c, ft, seed)
        ps      == IF ~rebuild THEN particles
                   ELSE [ k \in 1..Len(fresh) |->
                            IF ft = flowType /\ k <= Len(particles)
                            THEN particles[k] ELSE fresh[k] ]
    IN  /\ count' = c
        /\ flowType' = ft
        /\ showHeatmap' = h
        /\ paused' = pz
        /\ particles' = ps
        /\ mesh' = IF pz THEN Unmounted
                   ELSE IF ~mesh.mounted
                           \/ finalCount(c, ft) # finalCount(count, flowType)
                   THEN FreshMesh(finalCount(c, ft))
                   ELSE mesh
        /\ log' = IF rebuild THEN InitLog(ps) ELSE log
        /\ props' = IF rebuild THEN DefaultProps ELSE props
        /\ UNCHANGED <<dummy, clock>>

Rerender(c, ft, h, pz, seed) ==
    LET rebuild == finalCount(c, ft) # finalCount(count, flowType) \/ ft # flowType
        ps      == IF rebuild THEN Construct(c, ft, seed) ELSE particles
    IN  /\ count' = c
        /\ flowType' = ft
        /\ showHeatmap' = h
        /\ paused' = pz
        /\ particles' = ps
        /\ mesh' = IF pz THEN Unmounted
                   ELSE IF ~mesh.mounted
                           \/ finalCount(c, ft) # finalCount(count, flowType)
                   THEN FreshMesh(finalCount(c, ft))
                   ELSE mesh
        /\ log' = IF rebuild THEN InitLog(ps) ELSE log
        /\ props' = IF rebuild THEN DefaultProps ELSE props
        /\ UNCHANGED <<dummy, clock>>

\* outcomes of Math.random() drawn when the memo rebuilds the field during a
\* run (Init draws the first construction from all of Seeds)
RebuildSeeds == {0}

RenderCount ==
    /\ \E c \in Counts \ {count}, seed \in RebuildSeeds :
          Rerender(c, flowType, showHeatmap, paused, seed)
    /\ UNCHANGED appVars

RenderFlowType ==
    /\ \E ft \in FlowTypes \ {flowType}, seed \in RebuildSeeds :
          Rerender(count, ft, showHeatmap, paused, seed)
    /\ UNCHANGED appVars

RenderHeatmap ==
    /\ Rerender(count, flowType, ~showHeatmap, paused, 0)
    /\ UNCHANGED appVars

\* setParams(p): App re-renders, Scene computes isFlowPaused from the new
\* params and hands it to FlowParticles as paused
SetParams(p) ==
    /\ params' = p
    /\ Rerender(count, flowType, showHeatmap, isFlowPaused(p), 0)

\* Controls.updateParam(key, value)
updateParam(key, value) == SetParams([params EXCEPT ![key] = value])

\* the global flow switch of Controls: paused changes with isFlowActive
RenderPaused ==
    /\ updateParam("isFlowActive", ~params.isFlowActive)
    /\ UNCHANGED <<history, draggedIdx, isGeneratingShape, edits>>

Render == RenderCount \/ RenderFlowType \/ RenderHeatmap \/ RenderPaused

Next == Frame \/ Render

Spec == Init /\ [][Next]_vars

----------------------------------------------------------------------------
(* The component picked up in the middle of a run, under the props at which
   the frame callback changes branch *)

\* props at the stall threshold, on both signs, one of them with the
\* turbulence slider at its upper end and the speed slider at its lower end
\* (Controls: turbulence 0..3, flow speed 0.05..0.5), and props at zero angle
ProbeInputs ==
    { [DefaultProps EXCEPT !.angle = a] : a \in {-15010, -15000, 0, 15010} }
       \cup { [DefaultProps EXCEPT !.angle = 15000, !.turbulenceIntensity = 3000,
                                   !.speed = 50] }

\* wakeSpread values of particles that have stayed in the wake: none yet,
\* part of the way, two ticks and one tick below the cap, at the cap
ProbeSpreads == <<0, 1000, 1950, 1980, 2000>>

\* x of a particle that has advanced from the left bound to just upstream of
\* the reference point
ProbeUpstreamX == -500

\* a field some ticks after its construction: the particles built at the left
\* bound have advanced to just upstream of the body, and the Streamlines
\* particles past the separation point have accumulated spread (x jitter
\* against the base advance keeps a particle in the wake for any number of
\* ticks)
ProbeField(ft, seed) ==
    LET ps == Construct(13, ft, seed)
        adv(p) == IF p.x <= BOUND_START THEN [p EXCEPT !.x = ProbeUpstreamX] ELSE p
    IN  IF ft = "steam"
        THEN [ k \in 1..Len(ps) |->
                 IF ps[k].x > 950
                 THEN [ps[k] EXCEPT
                         !.wakeSpread = ProbeSpreads[((seed + k) % Len(ProbeSpreads)) + 1]]
                 ELSE adv(ps[k]) ]
        ELSE [ k \in 1..Len(ps) |-> adv(ps[k]) ]

\* the component resumed from a pause in the middle of a run: the particles
\* memo kept, a new instancedMesh with nothing written yet
InitProbe ==
    /\ count = 13
    /\ flowType \in FlowTypes
    /\ showHeatmap = FALSE
    /\ params = DEFAULT_PARAMS
    /\ paused = isFlowPaused(params)
    /\ \E seed \in Seeds : particles = ProbeField(flowType, seed)
    /\ mesh = FreshMesh(finalCount(count, flowType))
    /\ dummy = IF flowType = "steam" THEN LookAt ELSE Identity
    /\ props = DefaultProps
    /\ log = InitLog(particles)
    /\ clock = 0
    /\ history = <<>>
    /\ draggedIdx = NoDrag
    /\ isGeneratingShape = FALSE
    /\ edits = 0

FrameProbe == FrameOver(ProbeInputs) /\ UNCHANGED appVars

NextProbe == FrameProbe \/ RenderFlowType

SpecProbe == InitProbe /\ [][NextProbe]_vars

----------------------------------------------------------------------------
(* Scene: the four flags of params that decide whether the flow runs *)

\* the props App passes to the frame callback by default
SceneInputs == {DefaultProps}

\* App as mounted: DEFAULT_PARAMS, the default flow settings at a small count
InitScene ==
    /\ count = 13
    /\ flowType = "discrete"
    /\ showHeatmap = FALSE
    /\ params = DEFAULT_PARAMS
    /\ paused = isFlowPaused(params)
    /\ \E seed \in Seeds : particles = Construct(count, flowType, seed)
    /\ mesh = IF paused THEN Unmounted ELSE FreshMesh(finalCount(count, flowType))
    /\ dummy = Identity
    /\ props = DefaultProps
    /\ log = InitLog(particles)
    /\ clock = 0
    /\ history = <<>>
    /\ draggedIdx = NoDrag
    /\ isGeneratingShape = FALSE
    /\ edits = 0

FrameScene == FrameOver(SceneInputs) /\ UNCHANGED appVars

\* the NACA PARAMETRIC / FREEFORM buttons
SelectMode ==
    /\ \E m \in Modes \ {params.mode} : updateParam("mode", m)
    /\ UNCHANGED <<history, draggedIdx, isGeneratingShape, edits>>

\* the Edit Shape / Done Editing button, rendered in freeform mode
ToggleEditing ==
    /\ params.mode = "freeform"
    /\ updateParam("isEditing", ~params.isEditing)
    /\ UNCHANGED <<history, draggedIdx, isGeneratingShape, edits>>

\* the HIDE FLOW WHILE EDITING checkbox, rendered in freeform mode while editing
TogglePauseFlowDuringEdit ==
    /\ params.mode = "freeform" /\ params.isEditing
    /\ updateParam("pauseFlowDuringEdit", ~params.pauseFlowDuringEdit)
    /\ UNCHANGED <<history, draggedIdx, isGeneratingShape, edits>>

NextScene ==
    FrameScene \/ RenderPaused \/ SelectMode \/ ToggleEditing \/ TogglePauseFlowDuringEdit

SpecScene == InitScene /\ [][NextScene]_vars

----------------------------------------------------------------------------
(* App: the control points and their undo history *)

HISTORY_MAX == 20

\* a saveHistory that keeps the first 20 snapshots when the history is full
saveHistoryKeepOldest(h, pts) ==
    LET newHistory == Append(h, pts)
    IN  IF Len(newHistory) > HISTORY_MAX
        THEN SubSeq(newHistory, 1, HISTORY_MAX)
        ELSE newHistory

\* App.saveHistory: the history after the snapshot pts is pushed
saveHistory(h, pts) ==
    LET newHistory == Append(h, pts)
    IN  IF Len(newHistory) > HISTORY_MAX
        THEN SubSeq(newHistory, Len(newHistory) - HISTORY_MAX + 1, Len(newHistory))
        ELSE newHistory

\* the index (from 1) of the trailing edge: the first point of the largest x
teIndex(pts) ==
    CHOOSE t \in 1..Len(pts) :
       /\ \A j \in 1..Len(pts) : pts[j].x <= pts[t].x
       /\ \A j \in 1..(t - 1) : pts[j].x < pts[t].x

Mid(a, b) == Pt(Div(a.x + b.x, 2), Div(a.y + b.y, 2))

\* App.handleSubdivide: the points after a midpoint is put between every two
\* neighbours of the upper list (leading edge to trailing edge) and of the
\* lower list
Subdivided(pts) ==
    LET t     == teIndex(pts)
        m     == Len(pts) - t
        upper == [ k \in 1..(2 * (t - 1)) |->
                     IF k % 2 = 1 THEN pts[(k + 1) \div 2]
                     ELSE Mid(pts[k \div 2], pts[(k \div 2) + 1]) ]
        lower == IF m = 0 THEN <<>>
                 ELSE [ k \in 1..(2 * m - 1) |->
                          IF k % 2 = 1 THEN pts[t + ((k + 1) \div 2)]
                          ELSE Mid(pts[t + (k \div 2)], pts[t + (k \div 2) + 1]) ]
    IN  upper \o <<pts[t]>> \o lower

Avg(a, b, c) == Pt(Div(a.x + b.x + c.x, 3), Div(a.y + b.y + c.y, 3))

\* App.handleSmooth: Laplacian smoothing of the inner points of the upper
\* list and of the lower list, from the points as they were
Smoothed(pts) ==
    LET t == teIndex(pts)
    IN  [ k \in 1..Len(pts) |->
            IF (1 < k /\ k < t) \/ (t + 2 < k /\ k < Len(pts))
            THEN Avg(pts[k - 1], pts[k], pts[k + 1])
            ELSE pts[k] ]

\* Airfoil.handlePlanePointerMove: the points after handle idx (source
\* index) follows the pointer to pos
MovePoint(pts, idx, pos) ==
    LET np == IF idx = 0 THEN Pt(0, 0)
              ELSE IF idx = 4 THEN Pt(Scale, 0)
              ELSE Pt(Max(0, Min(Scale, pos.x)), Max(-500, Min(500, pos.y)))
    IN  [pts EXCEPT ![idx + 1] = np]

\* the Quick Shapes of Controls.applyShapePreset
ShapePoints ==
    [ ducktail |->
        << Pt(0, 0), Pt(200, 50), Pt(400, 80), Pt(600, 90), Pt(800, 150), Pt(950, 200),
           Pt(1000, 200),
           Pt(200, -50), Pt(400, -80), Pt(600, -50), Pt(800, 0), Pt(950, 100) >>,
      gtwing |->
        << Pt(0, 0), Pt(200, 50), Pt(400, 80), Pt(600, 80), Pt(800, 60), Pt(900, 40),
           Pt(1000, 0),
           Pt(200, -150), Pt(400, -180), Pt(600, -150), Pt(800, -100), Pt(900, -50) >>,
      teardrop |->
        << Pt(0, 0), Pt(100, 150), Pt(300, 150), Pt(500, 100), Pt(700, 50), Pt(900, 20),
           Pt(1000, 0),
           Pt(100, -150), Pt(300, -150), Pt(500, -100), Pt(700, -50), Pt(900, -20) >> ]

ShapeTypes == {"ducktail", "gtwing", "teardrop"}

\* handles the user drags: an inner handle and the handle of source index 4
DragIndices == {1, 4}

\* where the pointer is when a pointer move arrives, one position inside and
\* one outside the box the handles are kept in
PointerPositions == { Pt(250, 120), Pt(1200, -650) }

\* what generateProfilePoints resolves to: null, a list of five points (too
\* short to be applied) and a list of six
GeneratedResults ==
    { <<>>,
      << Pt(0, 0), Pt(300, 120), Pt(700, 90), Pt(1000, 0), Pt(300, -60) >>,
      << Pt(0, 0), Pt(300, 120), Pt(700, 90), Pt(1000, 0), Pt(300, -60), Pt(700, -40) >> }

\* the shapes a user steps through with the Quick Shapes and RESET buttons
CycleShapes ==
    << DEFAULT_POINTS, ShapePoints["ducktail"], ShapePoints["gtwing"],
       ShapePoints["teardrop"] >>

\* the history after n clicks through CycleShapes from the default points
CycleHistory(n) == [ i \in 1..n |-> CycleShapes[((i - 1) % 4) + 1] ]

\* presets read from localStorage at mount: one, saved from a freeform
\* editing session on the gtwing shape
SavedPresets ==
    { [ params |-> [DEFAULT_PARAMS EXCEPT !.mode = "freeform", !.isEditing = TRUE,
                                          !.controlPoints = ShapePoints["gtwing"]] ] }

\* numbers of clicks through CycleShapes before the run: none, and one short
\* of a full history
PriorEdits == {0, HISTORY_MAX - 1}

\* App in freeform mode with Edit Shape on, after n clicks through
\* CycleShapes; the flow runs at the default settings
InitApp ==
    /\ count = 13
    /\ flowType = "discrete"
    /\ showHeatmap = FALSE
    /\ \E n \in PriorEdits :
          /\ params = [DEFAULT_PARAMS EXCEPT !.mode = "freeform", !.isEditing = TRUE,
                                             !.controlPoints = CycleShapes[(n % 4) + 1]]
          /\ history = CycleHistory(n)
    /\ paused = isFlowPaused(params)
    /\ particles = Construct(count, flowType, 0)
    /\ mesh = IF paused THEN Unmounted ELSE FreshMesh(finalCount(count, flowType))
    /\ dummy = Identity
    /\ props = DefaultProps
    /\ log = InitLog(particles)
    /\ clock = 0
    /\ draggedIdx = NoDrag
    /\ isGeneratingShape = FALSE
    /\ edits = 0

\* one more handler call
Edit == edits < MaxEdits /\ edits' = edits + 1

\* the sculpt tools are rendered in freeform mode while editing
Sculpting == params.mode = "freeform" /\ params.isEditing

\* Airfoil.handlePointerDown on handle i, and App.handleDragStart
handleDragStart ==
    /\ Edit /\ Sculpting
    /\ \E i \in DragIndices : draggedIdx' = i
    /\ history' = saveHistory(history, params.controlPoints)
    /\ UNCHANGED <<params, isGeneratingShape>>
    /\ UNCHANGED engineVars

\* Airfoil.handlePlanePointerMove
handlePlanePointerMove ==
    /\ Edit
    /\ draggedIdx # NoDrag /\ params.isEditing
    /\ \E pos \in PointerPositions :
          SetParams([params EXCEPT
                       !.controlPoints = MovePoint(@, draggedIdx, pos)])
    /\ UNCHANGED <<history, draggedIdx, isGeneratingShape>>

\* Airfoil.handlePointerUp
handlePointerUp ==
    /\ Edit
    /\ draggedIdx # NoDrag
    /\ draggedIdx' = NoDrag
    /\ UNCHANGED <<params, history, isGeneratingShape>>
    /\ UNCHANGED engineVars

\* App.handleUndo
handleUndo ==
    /\ Edit /\ Sculpting
    /\ IF history = <<>>
       THEN UNCHANGED <<params, history>> /\ UNCHANGED engineVars
       ELSE /\ history' = SubSeq(history, 1, Len(history) - 1)
            /\ SetParams([params EXCEPT !.controlPoints = history[Len(history)]])
    /\ UNCHANGED <<draggedIdx, isGeneratingShape>>

\* App.handleReset
handleReset ==
    /\ Edit /\ Sculpting
    /\ history' = saveHistory(history, params.controlPoints)
    /\ SetParams([params EXCEPT !.controlPoints = DEFAULT_POINTS])
    /\ UNCHANGED <<draggedIdx, isGeneratingShape>>

\* App.handleSubdivide
handleSubdivide ==
    /\ Edit /\ Sculpting
    /\ history' = saveHistory(history, params.controlPoints)
    /\ SetParams([params EXCEPT !.controlPoints = Subdivided(@)])
    /\ UNCHANGED <<draggedIdx, isGeneratingShape>>

\* App.handleSmooth
handleSmooth ==
    /\ Edit /\ Sculpting
    /\ history' = saveHistory(history, params.controlPoints)
    /\ SetParams([params EXCEPT !.controlPoints = Smoothed(@)])
    /\ UNCHANGED <<draggedIdx, isGeneratingShape>>

\* Controls.applyShapePreset
applyShapePreset ==
    /\ Edit
    /\ params.mode = "freeform"
    /\ history' = saveHistory(history, params.controlPoints)
    /\ \E type \in ShapeTypes :
          SetParams([params EXCEPT !.mode = "freeform",
                                   !.controlPoints = ShapePoints[type]])
    /\ UNCHANGED <<draggedIdx, isGeneratingShape>>

\* Controls.handleLoadPreset
handleLoadPreset ==
    /\ Edit
    /\ history' = saveHistory(history, params.controlPoints)
    /\ \E preset \in SavedPresets : SetParams(preset.params)
    /\ UNCHANGED <<draggedIdx, isGeneratingShape>>

\* Controls.handleGenerateShape up to its await: the snapshot is saved and
\* the request leaves (the button is disabled while a request is in flight)
handleGenerateShape ==
    /\ Edit
    /\ params.mode = "freeform" /\ ~isGeneratingShape
    /\ history' = saveHistory(history, params.controlPoints)
    /\ isGeneratingShape' = TRUE
    /\ UNCHANGED <<params, draggedIdx>>
    /\ UNCHANGED engineVars

\* the points are applied: setParams with mode freeform and the new points
ApplyGenerated(points) ==
    SetParams([params EXCEPT !.mode = "freeform", !.controlPoints = points])

\* Controls.handleGenerateShape from its await on: the request resolves
GenerateShapeResolved ==
    /\ Edit
    /\ isGeneratingShape
    /\ \E points \in GeneratedResults :
          IF Len(points) > 5
          THEN ApplyGenerated(points)
          ELSE UNCHANGED params /\ UNCHANGED engineVars
    /\ isGeneratingShape' = FALSE
    /\ UNCHANGED <<history, draggedIdx>>

NextApp ==
    \/ handleDragStart \/ handlePlanePointerMove \/ handlePointerUp
    \/ handleUndo \/ handleReset \/ handleSubdivide \/ handleSmooth
    \/ applyShapePreset \/ handleLoadPreset
    \/ handleGenerateShape \/ GenerateShapeResolved

SpecApp == InitApp /\ [][NextApp]_vars

----------------------------------------------------------------------------
(* Properties *)

Indices == 1..Len(particles)

Ticked(k) == log[k].ticked

SameField == count' = count /\ flowType' = flowType

\* C1 Boundedness: at the end of every tick every particle has
\* xMin - maxJitter <= x <= xMax, i.e. -12 <= x <= 12.
C1_Boundedness ==
    \A k \in Indices :
       Ticked(k) => /\ BOUND_START - 2 * Scale <= particles[k].x
                    /\ particles[k].x <= BOUND_END

\* C2 Recycling preserves identity: while the field is not rebuilt, no step
\* (tick, recycle, render) changes a particle's lane (baseY), speedBias
\* (speedOffset) or phase.
C2_IdentityPreserved ==
    [][ SameField =>
          \A k \in Indices :
             /\ particles'[k].baseY = particles[k].baseY
             /\ particles'[k].speedOffset = particles[k].speedOffset
             /\ particles'[k].phase = particles[k].phase ]_vars

\* a particle that a tick has recycled, away from its lane before the tick
C2_Witness ==
    \E k \in Indices :
       Ticked(k) /\ log[k].recycled /\ log[k].start.y # log[k].start.baseY

ZeroInput == props.thickness = 0 /\ props.angle = 0

\* the wake block did not raise the wakeSpread of particle k in the last tick
SpreadNotRaised(k) ==
    HasWakeSpread(particles[k]) => particles[k].wakeSpread <= log[k].moved.wakeSpread

\* C3 Zero-input stability of the wake, as claimed: with thickness 0 and
\* angle 0 the wake intensity is zero for every particle and the wake changes
\* no position, wakeSpread or localIntensity, for every turbulenceIntensity
\* and in every render mode.
C3_ZeroInputWake ==
    \A k \in Indices :
       (Ticked(k) /\ ZeroInput) =>
          /\ log[k].wake.wakeIntensity = 0
          /\ log[k].wake.dx = 0 /\ log[k].wake.dy = 0
          /\ log[k].wake.heat = 0
          /\ SpreadNotRaised(k)

\* C3 amended: with thickness 0 and angle 0 the wake intensity of a particle
\* in the wake is zero exactly when turbulenceIntensity is 0 (the floor 0.2
\* keeps it positive otherwise); with turbulenceIntensity 0 the wake changes
\* no x and raises no wakeSpread in either mode, and in Swarm mode changes no
\* y and no localIntensity.
C3_ZeroInputWakeAmended ==
    \A k \in Indices :
       (Ticked(k) /\ ZeroInput) =>
          /\ props.turbulenceIntensity = 0 =>
                /\ log[k].wake.wakeIntensity = 0
                /\ log[k].wake.dx = 0
                /\ SpreadNotRaised(k)
                /\ flowType = "discrete" =>
                      log[k].wake.dy = 0 /\ log[k].wake.heat = 0
          /\ (props.turbulenceIntensity > 0 /\ flowType = "discrete"
                 /\ log[k].wake.inWake) =>
                log[k].wake.wakeIntensity > 0

\* a Swarm particle in the wake of a zero-input, zero-turbulence tick
C3_Witness ==
    \E k \in Indices :
       /\ Ticked(k) /\ ZeroInput /\ props.turbulenceIntensity = 0
       /\ flowType = "discrete" /\ log[k].wake.inWake

\* C4 Zero-input stability of the deflection: with thickness 0 and angle 0
\* the thickness push and the lift push are both exactly 0 for every
\* particle, inside or outside the influence radius.
C4_ZeroInputDeflection ==
    \A k \in Indices :
       (Ticked(k) /\ ZeroInput) =>
          /\ log[k].deflection.thicknessPush = 0
          /\ log[k].deflection.liftPush = 0

\* a zero-input tick with a particle inside the influence radius, where the
\* influence is not zero
C4_Witness ==
    \E k \in Indices :
       /\ Ticked(k) /\ ZeroInput
       /\ log[k].deflection.inside /\ log[k].deflection.influence > 0

\* C5 Wake spread resets outside the wake, as claimed: in Streamlines mode,
\* at the end of a tick in which the particle is not inside the wake (wake
\* disabled, x not past the separation point, or |y| not below the wake
\* half-width) its wakeSpread is 0.
C5_SpreadResetsOutsideWake ==
    flowType = "steam" =>
       \A k \in Indices :
          (Ticked(k) /\ ~log[k].wake.inCone) => particles[k].wakeSpread = 0

\* C5 amended: in Streamlines mode the wakeSpread is 0 at the end of a tick
\* in which the wake is disabled or the particle's x is not past the
\* separation point; a particle past the separation point but outside the
\* half-width has wakeSpread 0 only when its wakeSpread was 0 before: once
\* positive, the spread keeps accumulating there.
C5_SpreadResetsBeforeWake ==
    flowType = "steam" =>
       \A k \in Indices :
          Ticked(k) =>
             /\ ~log[k].wake.pastSep => particles[k].wakeSpread = 0
             /\ (log[k].wake.pastSep /\ ~log[k].wake.inCone) =>
                   IF log[k].moved.wakeSpread = 0
                   THEN particles[k].wakeSpread = 0
                   ELSE particles[k].wakeSpread >= log[k].moved.wakeSpread

\* a Streamlines particle that had accumulated spread, was not recycled, and
\* lost it in a tick that found it before the wake
C5_Witness ==
    /\ flowType = "steam"
    /\ \E k \in Indices :
          /\ Ticked(k) /\ ~log[k].recycled
          /\ log[k].start.wakeSpread > 0
          /\ ~log[k].wake.pastSep
          /\ particles[k].wakeSpread = 0

HeatColored(k) == k \in DOMAIN mesh.color /\ mesh.color[k].hex = "hsl"

\* C6 Heatmap monotonicity, as claimed: with the heatmap enabled, of two
\* particles the one with the strictly greater accumulated localIntensity
\* gets the strictly smaller hue.
C6_HeatmapStrictlyMonotone ==
    \A i, j \in Indices :
       (HeatColored(i) /\ HeatColored(j)
          /\ log[i].velocityScalar < log[j].velocityScalar)
       => mesh.color[j].h < mesh.color[i].h

\* C6 amended: the hue never increases with localIntensity, and it is
\* strictly smaller for the greater intensity whenever the smaller intensity
\* is below 1.2; from 1.2 on the hue is clamped at the hot end (0).
C6_HeatmapMonotone ==
    \A i, j \in Indices :
       (HeatColored(i) /\ HeatColored(j)
          /\ log[i].velocityScalar < log[j].velocityScalar)
       => /\ mesh.color[j].h <= mesh.color[i].h
          /\ log[i].velocityScalar < 1200 => mesh.color[j].h < mesh.color[i].h
          /\ log[i].velocityScalar >= 1200 => mesh.color[j].h = 0

\* two heat-colored particles of different intensity, both below the clamp
C6_Witness ==
    \E i, j \in Indices :
       /\ HeatColored(i) /\ HeatColored(j)
       /\ 0 < log[i].velocityScalar
       /\ log[i].velocityScalar < log[j].velocityScalar
       /\ log[j].velocityScalar < 1200

\* C7 Recycle step: when the base advance of a tick takes x above xMax, the
\* tick ends with x in (xMin - 2, xMin], y on the particle's lane, wakeSpread
\* 0, and neither the deflection nor the wake block moved the particle.
C7_RecycleStep ==
    \A k \in Indices :
       (Ticked(k) /\ log[k].recycled) =>
          /\ BOUND_START - 2 * Scale < particles[k].x
          /\ particles[k].x <= BOUND_START
          /\ particles[k].y = particles[k].baseY
          /\ HasWakeSpread(particles[k]) => particles[k].wakeSpread = 0
          /\ ~log[k].deflection.inside
          /\ ~log[k].wake.inWake
          /\ particles[k].x = log[k].moved.x

\* a recycled particle that was off its lane before the tick
C7_Witness ==
    \E k \in Indices :
       /\ Ticked(k) /\ log[k].recycled
       /\ log[k].start.y # log[k].start.baseY
       /\ log[k].start.x + props.speed + log[k].start.speedOffset > BOUND_END

\* C8 Paused invariance and resume: a frame invoked while paused changes no
\* field of any particle and writes no output, and neither pausing nor
\* resuming touches the particle records.
C8_PausedInvariance ==
    [][ /\ (paused /\ clock' # clock) => (particles' = particles /\ mesh' = mesh)
        /\ paused' # paused => particles' = particles ]_vars

\* paused, with particles that a tick has moved and at least one frame
\* invoked since that tick
C8_Witness ==
    /\ paused
    /\ \E k \in Indices :
          /\ Ticked(k) /\ log[k].time < ElapsedTime(clock)
          /\ particles[k].x # log[k].start.x

\* C9 Output buffer matches the population: the number of instances the
\* renderer draws equals the number of particle records, and a tick writes
\* one (transform, color) entry for each of them.
C9_BufferMatchesPopulation ==
    mesh.mounted =>
       /\ mesh.instanceCount = Len(particles)
       /\ Len(mesh.matrix) \in {0, mesh.instanceCount}
       /\ Len(mesh.color) = Len(mesh.matrix)

\* C10 Population size, as claimed: the field holds exactly populationSize
\* particle records in Swarm mode and in Streamlines mode.
C10_PopulationIsCount == Len(particles) = count

\* C10 amended: the field holds populationSize records in Swarm mode and
\* NUM_STREAMS * floor(2 * populationSize / NUM_STREAMS) records in
\* Streamlines mode, at construction and after every tick and render.
C10_PopulationSize ==
    Len(particles) = IF flowType = "steam"
                     THEN NUM_STREAMS * ((2 * count) \div NUM_STREAMS)
                     ELSE count

\* a Streamlines field that has been ticked
C10_Witness ==
    /\ flowType = "steam"
    /\ Len(particles) > count
    /\ \E k \in Indices : Ticked(k) /\ log[k].time > 0

\* C11 Stall discontinuity: the separation-point offset a tick uses is 0.95
\* for every |angle| <= 15, exactly 15.0 included, and 0.2 for every
\* |angle| > 15, 15.01 included; 0.2 < 0.95 and no other value is used; the
\* wake starts right behind that offset.
C11_StallDiscontinuity ==
    \A k \in Indices :
       Ticked(k) =>
          /\ Abs(props.angle) <= 15000 =>
                log[k].wake.sep = 950 /\ ~log[k].wake.stalled
          /\ Abs(props.angle) > 15000 =>
                log[k].wake.sep = 200 /\ log[k].wake.stalled
          /\ log[k].wake.sep \in {200, 950} /\ 200 < 950
          /\ log[k].wake.pastSep <=>
                (props.showVortices /\ log[k].moved.x > log[k].wake.sep)

\* a tick at exactly 15.0 degrees with a particle between the two offsets,
\* which the attached offset keeps before the wake
C11_Witness ==
    /\ Abs(props.angle) = 15000
    /\ \E k \in Indices :
          /\ Ticked(k) /\ ~log[k].wake.pastSep
          /\ 200 < log[k].moved.x /\ log[k].moved.x <= 950

\* the Math.random() outcomes recorded for a body are those of the outcome
\* named seed for the particle with source index n
DrawsAre(d, seed, n) ==
    /\ d.recycle \in {-1, Draw(seed, n, "recycle")}
    /\ d.jitterX \in {-1, Draw(seed, n, "jitterX")}
    /\ d.jitterY \in {-1, Draw(seed, n, "jitterY")}

C13_InvalidPopulationRejected ==
    count <= 0 => (particles # <<>> /\ ~mesh.mounted)

\* the field is as the particles memo returns it
Fresh == \E seed \in Seeds : particles = Construct(count, flowType, seed)

\* C14 Wake spread range: in Streamlines mode every particle is created with
\* wakeSpread 0, 0 <= wakeSpread <= 2.0 holds after every tick, and a tick
\* that finds the particle in the wake never lowers its wakeSpread.
C14_WakeSpreadRange ==
    flowType = "steam" =>
       /\ Fresh => \A k \in Indices : particles[k].wakeSpread = 0
       /\ \A k \in Indices :
          /\ 0 <= particles[k].wakeSpread /\ particles[k].wakeSpread <= 2000
          /\ (Ticked(k) /\ log[k].wake.inWake) =>
                /\ particles[k].wakeSpread >= log[k].start.wakeSpread
                /\ particles[k].wakeSpread =
                      Min(2000, log[k].start.wakeSpread
                                  + Mul(10, props.turbulenceIntensity))

\* a Streamlines particle in the wake whose spread a tick raised to the cap,
\* by less than the tick's increment
C14_Witness ==
    /\ flowType = "steam"
    /\ \E k \in Indices :
          /\ Ticked(k) /\ log[k].wake.inWake
          /\ log[k].start.wakeSpread < 2000
          /\ log[k].start.wakeSpread + Mul(10, props.turbulenceIntensity) > 2000
          /\ particles[k].wakeSpread = 2000

\* C15 Field rebuild policy: a change of populationSize or of renderMode
\* replaces the whole field by freshly constructed particles; a change of
\* heatmapEnabled or paused keeps every record as it is; and a tick, whatever
\* baseSpeed, turbulenceIntensity, wakeEnabled, angle and thickness it reads,
\* starts from every existing record in its current state.
C15_RebuildPolicy ==
    [][ /\ (count' # count \/ flowType' # flowType) =>
              /\ \E seed \in Seeds : particles' = Construct(count', flowType', seed)
              /\ \A k \in 1..Len(particles') : ~log'[k].ticked
        /\ (count' = count /\ flowType' = flowType /\ clock' = clock) =>
              particles' = particles
        /\ (clock' # clock /\ mesh.mounted /\ ~paused) =>
              /\ Len(particles') = Len(particles)
              /\ \A k \in Indices :
                    log'[k].ticked /\ log'[k].start = particles[k] ]_vars

\* a Swarm field as constructed, after a tick in Streamlines mode: the field
\* that was ticked has been replaced
C15_Witness ==
    /\ flowType = "discrete" /\ dummy = LookAt /\ clock > 0
    /\ Len(particles) > 0
    /\ \A k \in Indices : ~Ticked(k)
    /\ Fresh

\* C16 Initial placement: at construction every particle lies inside the
\* simulated volume, xMin <= x <= xMax (-10 <= x <= 12), in both modes.
C16_InitialPlacement ==
    Fresh => \A k \in Indices :
                BOUND_START <= particles[k].x /\ particles[k].x <= BOUND_END

\* C17 Swarm mode ignores wakeSpread: Swarm particles carry no wakeSpread at
\* construction or after any tick; a Swarm particle is in the wake exactly
\* when it is past the separation point and inside the half-width; the wake
\* moves it by its own displacement only; and its scale is the streak scale
\* (min(0.4, 0.15 + speed), 0.02, 0.02) times the visibility.
C17_SwarmIgnoresWakeSpread ==
    flowType = "discrete" =>
       \A k \in Indices :
          /\ ~HasWakeSpread(particles[k])
          /\ Ticked(k) =>
                /\ ~HasWakeSpread(log[k].start)
                /\ log[k].wake.inWake <=> log[k].wake.inCone
                /\ log[k].wake.spread = 0
                /\ particles[k].x = log[k].moved.x + log[k].wake.dx
                /\ particles[k].y = log[k].moved.y + log[k].deflection.thicknessPush
                                       + log[k].deflection.liftPush + log[k].wake.dy
                /\ k \in DOMAIN mesh.matrix =>
                      LET m  == mesh.matrix[k]
                          sc == Min(400, 150 + props.speed + particles[k].speedOffset)
                      IN  /\ m.sx = Mul(sc, m.visibility)
                          /\ m.sy = Mul(20, m.visibility)
                          /\ m.sz = Mul(20, m.visibility)

\* a Swarm particle that a tick found in the wake and wrote to the buffer
C17_Witness ==
    /\ flowType = "discrete"
    /\ \E k \in Indices :
          /\ Ticked(k) /\ log[k].wake.inWake
          /\ k \in DOMAIN mesh.matrix /\ mesh.matrix[k].visibility > 0

\* the indices 1..n from the last to the first
ReverseOrder(n) == [k \in 1..n |-> n + 1 - k]

\* C18 Particle independence: what a tick leaves for particle i (its new
\* state, its transform and its color) is what the body gives when run on
\* particle i alone, with a dummy of its own, from i's prior state, the
\* config, the input, the clock and i's own draws, and it is what a pass
\* over the particles in the opposite order leaves for it.
C18_ParticleIndependence ==
    [][ (clock' # clock /\ mesh.mounted /\ ~paused) =>
          \A seed \in Seeds :
             (\A k \in Indices : DrawsAre(log'[k].draws, seed, k - 1)) =>
                \A back \in { ForEach(particles, ReverseOrder(Len(particles)), props',
                                       flowType, showHeatmap, ElapsedTime(clock'),
                                       seed, dummy) } :
                   \A k \in Indices :
                      \A own \in { Step(particles[k], k - 1, props', flowType,
                                        showHeatmap, ElapsedTime(clock'), seed,
                                        Identity) } :
                         /\ particles'[k] = back.res[k].particle
                         /\ mesh'.matrix[k] = back.res[k].matrix
                         /\ mesh'.color[k] = back.res[k].color
                         /\ particles'[k] = own.particle
                         /\ mesh'.color[k] = own.color
                         /\ mesh'.matrix[k] = own.matrix ]_vars

\* C19 Visibility fade: the scale multiplier of every emitted instance is in
\* [0, 1], exactly 0 for x <= xMin and for x >= xMax, exactly 1 for
\* xMin + 3 <= x <= xMax - 3; a particle the tick has recycled is emitted,
\* with zero scale.
C19_VisibilityFade ==
    \A k \in DOMAIN mesh.matrix :
       LET m == mesh.matrix[k]
       IN  /\ 0 <= m.visibility /\ m.visibility <= Scale
           /\ (m.x <= BOUND_START \/ m.x >= BOUND_END) =>
                 m.visibility = 0 /\ m.sx = 0 /\ m.sy = 0 /\ m.sz = 0
           /\ (BOUND_START + FADE_DIST <= m.x /\ m.x <= BOUND_END - FADE_DIST) =>
                 m.visibility = Scale
           /\ (Ticked(k) /\ log[k].recycled) =>
                 /\ m.x = particles[k].x /\ m.x <= BOUND_START
                 /\ m.sx = 0 /\ m.sy = 0 /\ m.sz = 0

\* a buffer holding a recycled particle, a particle beyond xMax, a particle
\* in the fade-in and a particle in the fully visible range
C19_Witness ==
    \E i, j, k, l \in DOMAIN mesh.matrix :
       /\ Ticked(i) /\ log[i].recycled
       /\ mesh.matrix[j].x > BOUND_END
       /\ mesh.matrix[k].visibility > 0 /\ mesh.matrix[k].visibility < Scale
       /\ mesh.matrix[l].visibility = Scale

\* C20 Wake disabled: in a tick with wakeEnabled false a particle changes
\* only by the base advance, the recycle and the deflection; the wake adds
\* nothing to its position or to localIntensity; and in Streamlines mode its
\* wakeSpread is 0 at the end of the tick, whatever it was before.
C20_WakeDisabled ==
    \A k \in Indices :
       (Ticked(k) /\ ~props.showVortices) =>
          /\ ~log[k].wake.inWake
          /\ log[k].wake.dx = 0 /\ log[k].wake.dy = 0 /\ log[k].wake.heat = 0
          /\ log[k].velocityScalar = log[k].deflection.heat
          /\ log[k].moved.x =
                IF log[k].recycled THEN BOUND_START - log[k].draws.recycle * 2
                ELSE log[k].start.x + props.speed + log[k].start.speedOffset
          /\ particles[k].x = log[k].moved.x
          /\ particles[k].y = log[k].moved.y + log[k].deflection.thicknessPush
                                 + log[k].deflection.liftPush
          /\ flowType = "steam" => particles[k].wakeSpread = 0

\* a Streamlines particle that had accumulated spread and is past the
\* separation point in a tick with the wake switched off
C20_Witness ==
    /\ flowType = "steam" /\ ~props.showVortices
    /\ \E k \in Indices :
          /\ Ticked(k) /\ ~log[k].recycled
          /\ log[k].start.wakeSpread > 0
          /\ log[k].moved.x > log[k].wake.sep
          /\ particles[k].wakeSpread = 0

\* C21 Wake x-jitter only when stalled: in Swarm mode with |angle| <= 15 the
\* wake changes no particle's x; with |angle| > 15 a particle in the wake
\* gets the x jitter 2 * (draw - 0.5) * 0.05 * wakeIntensity, and a particle
\* outside the wake gets none.
C21_WakeJitterOnlyStalled ==
    flowType = "discrete" =>
       \A k \in Indices :
          Ticked(k) =>
             /\ particles[k].x = log[k].moved.x + log[k].wake.dx
             /\ Abs(props.angle) <= 15000 => log[k].wake.dx = 0
             /\ ~log[k].wake.inWake => log[k].wake.dx = 0
             /\ (Abs(props.angle) > 15000 /\ log[k].wake.inWake) =>
                   log[k].wake.dx =
                      2 * Mul(Mul(log[k].draws.jitterX - 500, 50),
                              log[k].wake.wakeIntensity)

\* a stalled Swarm tick that moved a particle of the wake along x, and on
\* the same field a particle outside the wake
C21_Witness ==
    /\ flowType = "discrete" /\ Abs(props.angle) > 15000
    /\ \E j, k \in Indices :
          /\ Ticked(k) /\ log[k].wake.inWake /\ log[k].wake.dx # 0
          /\ Ticked(j) /\ ~log[j].wake.inWake

\* particle k was, after the base movement of the last tick, at a distance
\* of at least 2.5 * (1.2 + thickness / 25) from the reference point (0.3, 0)
BeyondCutoff(k) ==
    LET dx == log[k].moved.x - 300
        dy == log[k].moved.y
        r  == Mul(1200 + Div(props.thickness, 25), 2500)
    IN  (Mul(dx, dx) + Mul(dy, dy)) * Scale >= r * r

\* C22 Deflection cutoff: a particle at or beyond the cutoff distance gets no
\* push and no deflection contribution to localIntensity; a particle inside
\* it gets the contribution 0.8 * influence; and the deflection never
\* changes x.
C22_DeflectionCutoff ==
    \A k \in Indices :
       Ticked(k) =>
          /\ IF BeyondCutoff(k)
             THEN /\ log[k].deflection.thicknessPush = 0
                  /\ log[k].deflection.liftPush = 0
                  /\ log[k].deflection.heat = 0
                  /\ log[k].velocityScalar = log[k].wake.heat
             ELSE /\ log[k].deflection.heat = Mul(log[k].deflection.influence, 800)
                  /\ log[k].velocityScalar =
                        log[k].deflection.heat + log[k].wake.heat
          /\ particles[k].x = log[k].moved.x + log[k].wake.dx
          /\ particles[k].y = log[k].moved.y + log[k].deflection.thicknessPush
                                 + log[k].deflection.liftPush + log[k].wake.dy

\* a tick with a particle beyond the cutoff, a particle inside it but
\* farther than the interaction radius itself that was heated, and a
\* particle inside it that was pushed
C22_Witness ==
    \E j, k, l \in Indices :
       /\ Ticked(j) /\ BeyondCutoff(j)
       /\ Ticked(k) /\ ~BeyondCutoff(k)
       /\ (log[k].moved.x - 300) * (log[k].moved.x - 300)
             + log[k].moved.y * log[k].moved.y
             > (1200 + Div(props.thickness, 25)) * (1200 + Div(props.thickness, 25))
       /\ log[k].deflection.heat > 0
       /\ Ticked(l) /\ ~BeyondCutoff(l)
       /\ log[l].deflection.thicknessPush + log[l].deflection.liftPush # 0

\* C23 Upwash/downwash antisymmetry: the angle-of-attack push of a particle
\* inside the cutoff is m upstream of the reference point (x < 0.3) and -m at
\* or downstream of it, where m depends on the influence and the angle only;
\* upstream it has the sign of the angle (the sign of sin(angle) for the
\* slider's angles), downstream the opposite sign, and it is 0 at angle 0;
\* two particles of one tick with the same influence on opposite sides of the
\* reference point get opposite pushes; the thickness push has the sign of
\* the particle's side of the centerline, y = 0 counted as positive.
C23_UpwashDownwash ==
    \A k \in Indices :
       (Ticked(k) /\ log[k].deflection.inside) =>
          LET m  == Mul(Mul(log[k].deflection.influence,
                            Mul(Sin(DegToRad(props.angle)), 3500)), 150)
              up == log[k].moved.x < 300
              side == IF log[k].moved.y < 0 THEN -1 ELSE 1
          IN  /\ log[k].deflection.liftPush = IF up THEN m ELSE -m
              /\ up  => log[k].deflection.liftPush * props.angle >= 0
              /\ ~up => log[k].deflection.liftPush * props.angle <= 0
              /\ props.angle = 0 => log[k].deflection.liftPush = 0
              /\ log[k].deflection.thicknessPush * side >= 0
              /\ \A j \in Indices :
                    ( /\ Ticked(j) /\ log[j].deflection.inside
                      /\ log[j].deflection.influence = log[k].deflection.influence
                      /\ (log[j].moved.x < 300) # up )
                    => log[j].deflection.liftPush = -log[k].deflection.liftPush

\* a tick at a nonzero angle in which a particle upstream of the reference
\* point and a particle downstream of it are both pushed by the angle of
\* attack, and a particle below the centerline is pushed down by the
\* thickness
C23_Witness ==
    \E i, j, k \in Indices :
       /\ props.angle # 0
       /\ Ticked(i) /\ log[i].deflection.inside /\ log[i].moved.x < 300
       /\ log[i].deflection.liftPush # 0
       /\ Ticked(j) /\ log[j].deflection.inside /\ log[j].moved.x >= 300
       /\ log[j].deflection.liftPush # 0
       /\ Ticked(k) /\ log[k].deflection.inside /\ log[k].moved.y < 0
       /\ log[k].deflection.thicknessPush < 0

\* wakeIntensity of the tick of particle k by the formula
\* min(1, |angle| / 10 + 0.2) * exp(-0.1 * distanceBehind) * turbulenceIntensity
IntensityBehind(k) ==
    Mul(Mul(Min(Scale, Div(Abs(props.angle), 10) + 200),
            ExpNeg(Mul(log[k].moved.x - log[k].wake.sep, 100))),
        props.turbulenceIntensity)

\* the color written for the accumulated intensity v: v clamped to [0, 1.5],
\* then mapped to hue, saturation and lightness
ClampedColor(k, v) ==
    LET t == IF v < 0 THEN 0 ELSE IF v > 1500 THEN 1500 ELSE v
    IN  /\ mesh.color[k].h = Max(0, 600 * Scale - t * 500)
        /\ mesh.color[k].s = Min(Scale * Scale, 500 * Scale + t * 500)
        /\ mesh.color[k].l = Min(900 * Scale, 500 * Scale + t * 100)

\* C24 Wake heat contribution, as claimed: in either render mode a particle
\* in the wake gets a wake contribution to localIntensity in a tick if and
\* only if the wakeIntensity of the formula exceeds 0.1, and the accumulated
\* value is clamped to [0, 1.5] before it is mapped to a color.
C24_WakeHeatByIntensity ==
    \A k \in Indices :
       Ticked(k) =>
          /\ log[k].wake.inWake =>
                (log[k].wake.heat > 0 <=> IntensityBehind(k) > 100)
          /\ HeatColored(k) => ClampedColor(k, log[k].velocityScalar)

\* C24 Wake heat contribution, amended: in Swarm mode a particle in the wake
\* gets the contribution 1.2 * wakeIntensity if and only if wakeIntensity
\* exceeds 0.1; in Streamlines mode it gets 0.5 * wakeSpread (the spread
\* after this tick's increment) whatever the wakeIntensity; a particle
\* outside the wake gets none; the sum of the deflection and the wake
\* contributions is clamped to [0, 1.5] before it is mapped to a color.
C24_WakeHeat ==
    \A k \in Indices :
       Ticked(k) =>
          /\ (log[k].wake.inWake /\ flowType = "discrete") =>
                \A wi \in { IntensityBehind(k) } :
                   /\ log[k].wake.wakeIntensity = wi
                   /\ log[k].wake.heat = IF wi > 100 THEN Mul(wi, 1200) ELSE 0
                   /\ log[k].wake.heat > 0 <=> wi > 100
          /\ (log[k].wake.inWake /\ flowType = "steam") =>
                log[k].wake.heat = Mul(particles[k].wakeSpread, 500)
          /\ ~log[k].wake.inWake => log[k].wake.heat = 0
          /\ log[k].velocityScalar = log[k].deflection.heat + log[k].wake.heat
          /\ HeatColored(k) => ClampedColor(k, log[k].velocityScalar)

\* a Swarm tick with the heatmap on that found two particles in the wake, one
\* with a wakeIntensity above the floor and one with a positive wakeIntensity
\* at or below it
C24_Witness ==
    /\ flowType = "discrete"
    /\ \E i, j \in Indices :
          /\ Ticked(i) /\ log[i].wake.inWake /\ HeatColored(i)
          /\ IntensityBehind(i) > 100 /\ log[i].wake.heat > 0
          /\ Ticked(j) /\ log[j].wake.inWake /\ HeatColored(j)
          /\ 0 < IntensityBehind(j) /\ IntensityBehind(j) <= 100

\* the lane centers, lane i at index i + 1
LaneCenters == [ i \in 1..NUM_STREAMS |-> streamY(i - 1) ]

\* the lanes (from 0) whose center is within 0.075 of the lane value of
\* particle k
LanesOf(k) ==
    { i \in 0..(NUM_STREAMS - 1) : Abs(particles[k].baseY - streamY(i)) <= 75 }

\* C25 Streamlines lanes: in Streamlines mode there are 25 lane centers,
\* evenly spaced from y = -5 to y = 5 (to the rounding of the arithmetic);
\* every particle's lane value is within 0.075 of exactly one center; every
\* lane holds the same number of particles, floor(2 * count / 25); and a
\* particle that no tick has touched has y equal to its lane value.
C25_StreamlinesLanes ==
    flowType = "steam" =>
       /\ NUM_STREAMS = 25
       /\ streamY(0) = -5 * Scale /\ streamY(NUM_STREAMS - 1) = 5 * Scale
       /\ \A i \in 0..(NUM_STREAMS - 1) :
             Abs((NUM_STREAMS - 1) * streamY(i)
                   - (i * 10 * Scale - 5 * Scale * (NUM_STREAMS - 1)))
                < NUM_STREAMS - 1
       /\ \A k \in Indices : ~Ticked(k) => particles[k].y = particles[k].baseY
       /\ \A c \in { LaneCenters } :
             /\ \A k \in Indices :
                   Cardinality({ i \in 1..NUM_STREAMS :
                                   Abs(particles[k].baseY - c[i]) <= 75 }) = 1
             /\ \A i \in 1..NUM_STREAMS :
                   Cardinality({ k \in Indices :
                                   Abs(particles[k].baseY - c[i]) <= 75 })
                      = (2 * count) \div 25

\* a Streamlines field as constructed, with a particle on every lane and
\* particles off their lane's center on both sides
C25_Witness ==
    /\ flowType = "steam" /\ Fresh
    /\ \A k \in Indices : ~Ticked(k)
    /\ \A i \in 0..(NUM_STREAMS - 1) : \E k \in Indices : i \in LanesOf(k)
    /\ \E j, k \in Indices, i \in 0..(NUM_STREAMS - 1) :
          /\ particles[j].baseY = streamY(0) - 75
          /\ particles[k].baseY > streamY(i) /\ i \in LanesOf(k)

\* C28 Swarm orientation does not depend on mode history: every transform
\* written in Swarm mode carries the orientation a component that has been
\* in Swarm mode from the start writes, the rotation of a fresh dummy,
\* whether or not the component ticked in Streamlines mode before.
C28_SwarmOrientation ==
    flowType = "discrete" =>
       \A k \in DOMAIN mesh.matrix : mesh.matrix[k].rotation = Identity

\* C29 Zero turbulence silences the wake: in a tick with turbulenceIntensity
\* 0 the wake block moves no particle, in x or in y, in either render mode,
\* whatever wakeSpread the particle brought into the tick.
C29_ZeroTurbulenceSilencesWake ==
    \A k \in Indices :
       (Ticked(k) /\ props.turbulenceIntensity = 0) =>
          /\ log[k].wake.dx = 0 /\ log[k].wake.dy = 0
          /\ particles[k].x = log[k].moved.x
          /\ particles[k].y = log[k].moved.y + log[k].deflection.thicknessPush
                                 + log[k].deflection.liftPush

\* the flow switch is off, or the mode is freeform with isEditing and
\* pauseFlowDuringEdit both set
ShouldPause ==
    \/ ~params.isFlowActive
    \/ params.mode = "freeform" /\ params.isEditing /\ params.pauseFlowDuringEdit

\* C26 Pause predicate: in every state, FlowParticles is paused and has no
\* instanced mesh mounted exactly when the flow switch is off or mode,
\* isEditing and pauseFlowDuringEdit say freeform, true, true; a frame in a
\* paused state leaves the particles, the buffers and the log as they are,
\* and a frame in any other state ticks every particle and writes its
\* instance.
C26_PausePredicate ==
    [][ /\ paused <=> ShouldPause
        /\ mesh.mounted <=> ~ShouldPause
        /\ clock' # clock =>
              IF ShouldPause
              THEN particles' = particles /\ mesh' = mesh /\ log' = log
              ELSE \A k \in 1..Len(particles) :
                      /\ log'[k].ticked /\ log'[k].time = ElapsedTime(clock')
                      /\ k \in DOMAIN mesh'.matrix /\ k \in DOMAIN mesh'.color ]_vars

\* the flow switch is on, the flow is hidden by the editing flags, and a
\* frame has passed without a tick since the particles last moved
C26_Witness ==
    /\ params.isFlowActive /\ params.mode = "freeform"
    /\ params.isEditing /\ params.pauseFlowDuringEdit
    /\ paused /\ ~mesh.mounted
    /\ \E k \in Indices : Ticked(k) /\ log[k].time < ElapsedTime(clock)

\* a step of one of the handlers that save a snapshot: drag start, reset,
\* subdivide, smooth, a quick shape or a preset load, the start of a shape
\* generation
SavingStep ==
    \/ handleDragStart \/ handleReset \/ handleSubdivide \/ handleSmooth
    \/ applyShapePreset \/ handleLoadPreset \/ handleGenerateShape

C30_UndoAfterGeneration ==
    [][ ( /\ isGeneratingShape /\ ~isGeneratingShape'
          /\ \E points \in GeneratedResults :
                Len(points) > 5 /\ ApplyGenerated(points) )
        => /\ history' # <<>>
           /\ history'[Len(history')] = params.controlPoints ]_vars

====
